---------------------------- MODULE Spec2Model ----------------------------
(***************************************************************************)
(* Workout Record Service (src/app.py): four FastAPI handlers over one     *)
(* SQLite table `workouts`, each opening its own connection.                *)
(*                                                                         *)
(* The store is shared by every connection (the file fitness.db), so the   *)
(* model interleaves the handlers of different requests at the granularity *)
(* of one SQL statement (with its commit): that is what several worker     *)
(* processes on the same database file can produce.  Inside one handler    *)
(* the statements run in program order.                                    *)
(*                                                                         *)
(* A request takes the first free slot: the slots are interchangeable.     *)
(* Weights are REAL in the code; the model draws them from the integers,   *)
(* so floating-point rounding is outside the model.  The clock and the     *)
(* time zone of the server are inputs of the analytics query.              *)
(***************************************************************************)
EXTENDS Integers, Sequences, FiniteSets, TLC

\* Number of requests that may be in flight at the same time.
NumReq == 2
\* Number of INSERTs the model lets the service perform.
MaxCreates == 2

\* The trailing window of get_analytics: date('now', '-7 days', ...).
WindowDays == 7

\* Optional[float]: None is the empty sequence, a value v is <<v>>.
None == <<>>
Some(v) == <<v>>

Req == 1..NumReq

\* Ids a client may name in DELETE /workouts/{id}: every id the store can
\* have assigned, and one it never assigns.
WorkoutIds == 1..(MaxCreates + 1)

-----------------------------------------------------------------------------
(* datetime.date and its text form                                         *)

Date(y, m, d) == [year |-> y, month |-> m, day |-> d]

IsLeap(y) == (y % 4 = 0) /\ ((y % 100 # 0) \/ (y % 400 = 0))

DaysInMonth(y, m) ==
    IF m = 2 THEN (IF IsLeap(y) THEN 29 ELSE 28)
    ELSE IF m \in {4, 6, 9, 11} THEN 30 ELSE 31

RECURSIVE DaysBeforeMonth(_, _)
DaysBeforeMonth(y, m) ==
    IF m = 1 THEN 0 ELSE DaysBeforeMonth(y, m - 1) + DaysInMonth(y, m - 1)

DaysBeforeYear(y) ==
    (y - 1) * 365 + ((y - 1) \div 4) - ((y - 1) \div 100) + ((y - 1) \div 400)

\* Day number of a calendar date (proleptic Gregorian, day 1 = 0001-01-01).
ToOrdinal(d) == DaysBeforeYear(d.year) + DaysBeforeMonth(d.year, d.month) + d.day

\* The calendar dates the model's clocks and workouts range over.
Calendar ==
    { dt \in [year : {2024}, month : 3..4, day : 1..31] :
        dt.day <= DaysInMonth(dt.year, dt.month) }

FromOrdinal(n) == CHOOSE d \in Calendar : ToOrdinal(d) = n

\* Text is a sequence of character codes; digits are '0' = 48 .. '9' = 57.
Digit(n) == 48 + n
Hyphen == <<45>>
Pad2(n) == << Digit((n \div 10) % 10), Digit(n % 10) >>
Pad4(n) == << Digit((n \div 1000) % 10), Digit((n \div 100) % 10),
              Digit((n \div 10) % 10), Digit(n % 10) >>

\* date.isoformat(): 'YYYY-MM-DD', zero padded.
IsoFormat(d) == Pad4(d.year) \o Hyphen \o Pad2(d.month) \o Hyphen \o Pad2(d.day)

Num2(t, i) == (t[i] - 48) * 10 + (t[i + 1] - 48)

\* The response model reads the stored text back into a date.
ParseDate(t) == Date(Num2(t, 1) * 100 + Num2(t, 3), Num2(t, 6), Num2(t, 9))

\* SQLite compares TEXT byte by byte (BINARY collation).
RECURSIVE TextLess(_, _)
TextLess(a, b) ==
    IF b = <<>> THEN FALSE
    ELSE IF a = <<>> THEN TRUE
    ELSE IF Head(a) # Head(b) THEN Head(a) < Head(b)
    ELSE TextLess(Tail(a), Tail(b))

TextGE(a, b) == ~TextLess(a, b)

-----------------------------------------------------------------------------
(* Inputs                                                                  *)

Workout(t, d, r, s, w) == [type |-> t, date |-> d, reps |-> r, sets |-> s, weight |-> w]

\* Request bodies that pass the Workouts schema.
Workouts ==
    { Workout("squat", Date(2024, 3, 25), 10, 3, Some(100)),
      Workout("squat", Date(2024, 4, 1), 5, 2, None),
      Workout("run", Date(2024, 3, 24), 4, 1, None),
      Workout("run", Date(2024, 4, 3), 2, 2, Some(3)) }

\* 'now' of the SQLite clock: a UTC date and hour.
Instants == { [date |-> Date(2024, 4, 1), hour |-> h] : h \in {10, 22} }

\* Time zones the server may run in.
Zones == {"UTC", "Europe/Berlin"}

\* Hours since day 0, 00:00 UTC.
HourStamp(t) == ToOrdinal(t.date) * 24 + t.hour

\* Offset of local time from UTC, in hours, at a UTC hour stamp.
\* Europe/Berlin: CET, and CEST from 2024-03-31 01:00 UTC.
UtcOffset(zone, stamp) ==
    IF zone = "UTC" THEN 0
    ELSE IF stamp >= HourStamp([date |-> Date(2024, 3, 31), hour |-> 1]) THEN 2 ELSE 1

-----------------------------------------------------------------------------
(* The store: table workouts of fitness.db                                 *)

VARIABLES
    workouts,           \* the committed rows of table workouts
    seq,                \* sqlite_sequence: the largest rowid ever assigned
    pc,                 \* per request slot: the statement the handler is at
    arg,                \* per request slot: the request's input
    conn,               \* per request slot: state of the handler's connection
    last_insert_rowid,  \* per connection: rowid of its most recent INSERT
    response,           \* the response produced most recently
    assigned,           \* history: every id an INSERT has assigned
    acks                \* history: per id, the success acknowledgments of Delete

vars == << workouts, seq, pc, arg, conn, last_insert_rowid, response,
           assigned, acks >>

Max(a, b) == IF a >= b THEN a ELSE b

RECURSIVE MaxRowid(_)
MaxRowid(ws) ==
    IF ws = {} THEN 0
    ELSE LET w == CHOOSE x \in ws : TRUE
         IN  Max(w.id, MaxRowid(ws \ {w}))

\* Plain INTEGER PRIMARY KEY: one more than the largest rowid in the table.
NextRowidReuse(ws, s) == MaxRowid(ws) + 1

\* INTEGER PRIMARY KEY AUTOINCREMENT: one more than the largest rowid the
\* table has ever held.
NextRowid(ws, s) == Max(s, MaxRowid(ws)) + 1

\* INSERT INTO workouts (type, date, reps, sets, weight) VALUES (...)
InsertRow(ws, id, w) ==
    ws \cup { [id |-> id, type |-> w.type, date |-> IsoFormat(w.date),
               reps |-> w.reps, sets |-> w.sets, weight |-> w.weight] }

\* SELECT ... FROM workouts WHERE id = ?
SelectById(ws, id) == { w \in ws : w.id = id }

\* A DELETE whose WHERE clause is lost.
DeleteAllRows(ws, id) == {}

\* DELETE FROM workouts WHERE id = ?
DeleteById(ws, id) == { w \in ws : w.id # id }

\* A row as the response model WorkoutResponse renders it.
WorkoutResponse(row) ==
    [id |-> row.id, type |-> row.type, date |-> ParseDate(row.date),
     reps |-> row.reps, sets |-> row.sets, weight |-> row.weight]

\* All orders of the rows of a result set.
Orderings(ws) ==
    { s \in [1..Cardinality(ws) -> ws] : \A i, j \in DOMAIN s : i # j => s[i] # s[j] }

\* Rows in rowid order, whatever their dates.
OrderByRowid(ws) ==
    { s \in Orderings(ws) : \A i, j \in DOMAIN s : i < j => s[i].id < s[j].id }

\* ORDER BY date DESC: the column is TEXT; rows with equal dates come in an
\* order SQLite does not promise.
OrderByDateDesc(ws) ==
    { s \in Orderings(ws) : \A i, j \in DOMAIN s : i < j => TextGE(s[i].date, s[j].date) }

\* date('now', '-7 days', 'localtime'): the modifiers apply left to right,
\* so the seven days are taken off the UTC instant and the result is then
\* shifted to local time with the offset in force at that earlier instant.
WindowStart(now, zone) ==
    LET shifted == HourStamp(now) - WindowDays * 24
        local   == shifted + UtcOffset(zone, shifted)
    IN  IsoFormat(FromOrdinal(local \div 24))

\* WHERE date >= <start> with no bound on later dates.
WhereInWindow(ws, start) == { w \in ws : TextGE(w.date, start) }

\* COALESCE(weight, 1)
Coalesce(w, dflt) == IF w = None THEN dflt ELSE w[1]

RECURSIVE SumReps(_)
\* SUM(reps * sets)
SumReps(ws) ==
    IF ws = {} THEN 0
    ELSE LET w == CHOOSE x \in ws : TRUE
         IN  w.reps * w.sets + SumReps(ws \ {w})

RECURSIVE SumVolume(_)
\* SUM(reps * sets * COALESCE(weight, 1))
SumVolume(ws) ==
    IF ws = {} THEN 0
    ELSE LET w == CHOOSE x \in ws : TRUE
         IN  w.reps * w.sets * Coalesce(w.weight, 1) + SumVolume(ws \ {w})

\* GROUP BY type: one result row per type among the selected rows, in an
\* order SQLite does not promise.
GroupByType(ws) ==
    LET types == { w.type : w \in ws }
    IN  { [i \in 1..Cardinality(types) |->
             LET g == { w \in ws : w.type = order[i] }
             IN  << order[i], SumReps(g), SumVolume(g) >>] :
          order \in { o \in [1..Cardinality(types) -> types] :
                        \A i, j \in DOMAIN o : i # j => o[i] # o[j] } }

-----------------------------------------------------------------------------
(* Connections and error handling                                          *)

\* A context manager that closes only when the body ends normally.
CloseOnNormalExit(c, raising) == IF raising THEN c ELSE "closed"

\* get_db_connection: the finally clause closes the connection however the
\* body of the with statement ends.
CloseOnExit(c, raising) == "closed"

\* except Exception as e: raise HTTPException(status_code=500, detail=str(e))
ServerError == [status |-> 500, error |-> "HTTPException"]

\* conn.rollback(): works on an open connection only.
Rollback(c) ==
    IF c = "open" THEN "ok"
    ELSE IF c = "closed" THEN "ProgrammingError"
    ELSE "UnboundLocalError"

\* The except clause of delete_workout.  It runs after the with statement
\* has been left, for every exception, the handler's own HTTPException(404)
\* included; an exception of conn.rollback() leaves the handler unhandled and
\* the server answers 500.
DeleteExcept(c) ==
    IF Rollback(c) = "ok" THEN ServerError
    ELSE [status |-> 500, error |-> Rollback(c)]

\* Acknowledging a delete only when the DELETE statement removed a row.
DeleteStatusByRowcount(rowcount) == IF rowcount = 0 THEN 404 ELSE 200

\* delete_workout returns success after the DELETE, whatever it removed.
DeleteStatus(rowcount) == 200

Blank ==
    [op |-> "", status |-> 0, error |-> "", workout |-> <<>>, id |-> 0,
     now |-> <<>>, zone |-> "", rows |-> <<>>, labels |-> <<>>,
     reps_data |-> <<>>, volume_data |-> <<>>, found |-> "", rowcount |-> -1,
     counted |-> {}]

NoArg == [workout |-> <<>>, id |-> 0]

Failure(op, a, outcome) ==
    [Blank EXCEPT !.op = op, !.status = outcome.status, !.error = outcome.error,
                  !.workout = a.workout, !.id = a.id]

Init ==
    /\ workouts = {}
    /\ seq = 0
    /\ pc = [r \in Req |-> "idle"]
    /\ arg = [r \in Req |-> NoArg]
    /\ conn = [r \in Req |-> "closed"]
    /\ last_insert_rowid = [r \in Req |-> 0]
    /\ response = Blank
    /\ assigned = {}
    /\ acks = [i \in WorkoutIds |-> 0]

\* with get_db_connection() as conn: sqlite3.connect opens a connection of
\* the request's own, which touches nothing another request can see; the
\* handler goes on to its first statement in the same step.
Connect(r) ==
    /\ response = Blank
    /\ pc[r] = "idle"
    /\ \A q \in Req : q < r => pc[q] # "idle"

\* The handler of slot r is inside its with statement, at statement `at`.
At(r, at) ==
    /\ response = Blank
    /\ pc[r] = at

\* The handler of slot r stays inside its with statement and goes to `at`.
Continue(r, at, a, rowid) ==
    /\ pc' = [pc EXCEPT ![r] = at]
    /\ arg' = [arg EXCEPT ![r] = a]
    /\ conn' = [conn EXCEPT ![r] = "open"]
    /\ last_insert_rowid' = [last_insert_rowid EXCEPT ![r] = rowid]
    /\ response' = Blank

\* The handler of slot r ends: its connection is left as the with statement
\* leaves it and the response goes out.
Finish(r, resp, raising) ==
    /\ pc' = [pc EXCEPT ![r] = "idle"]
    /\ arg' = [arg EXCEPT ![r] = NoArg]
    /\ conn' = [conn EXCEPT ![r] = CloseOnExit("open", raising)]
    /\ last_insert_rowid' = [last_insert_rowid EXCEPT ![r] = 0]
    /\ response' = resp

-----------------------------------------------------------------------------
(* POST /workouts/                                                         *)

\* INSERT and commit.
AddInsert(r, w) ==
    /\ Connect(r)
    /\ seq < MaxCreates
    /\ LET id == NextRowid(workouts, seq)
       IN  /\ workouts' = InsertRow(workouts, id, w)
           /\ seq' = Max(seq, id)
           /\ assigned' = assigned \cup {id}
           /\ Continue(r, "add_select", [workout |-> <<w>>, id |-> 0], id)
    /\ UNCHANGED acks

\* The rowid the read-back asks for if it took the table's largest.
ReadBackRowidOfTable(r) == MaxRowid(workouts)

\* WHERE id = last_insert_rowid(): the connection's own most recent INSERT.
ReadBackRowid(r) == last_insert_rowid[r]

\* The read-back and the return.  fetchone() gives None when the row is
\* gone, and new_workout[0] then raises TypeError inside the try.
AddSelect(r) ==
    /\ At(r, "add_select")
    /\ LET found == SelectById(workouts, ReadBackRowid(r))
       IN  IF found = {}
           THEN Finish(r, [Failure("add_workout", arg[r], ServerError)
                            EXCEPT !.found = "no"], TRUE)
           ELSE Finish(r, [Blank EXCEPT !.op = "add_workout", !.status = 200,
                                        !.workout = arg[r].workout,
                                        !.id = last_insert_rowid[r],
                                        !.found = "yes",
                                        !.rows = << WorkoutResponse(CHOOSE w \in found : TRUE) >>],
                       FALSE)
    /\ UNCHANGED << workouts, seq, assigned, acks >>

\* The INSERT or its commit raises (database locked, disk error, ...): the
\* table keeps no row of the request.
AddInsertFails(r) ==
    /\ Connect(r)
    /\ Finish(r, Failure("add_workout", NoArg, ServerError), TRUE)
    /\ UNCHANGED << workouts, seq, assigned, acks >>

\* The read-back raises: the row committed before it stays.
AddSelectFails(r) ==
    /\ At(r, "add_select")
    /\ Finish(r, Failure("add_workout", arg[r], ServerError), TRUE)
    /\ UNCHANGED << workouts, seq, assigned, acks >>

-----------------------------------------------------------------------------
(* GET /workouts/                                                          *)

ListQuery(r) ==
    /\ Connect(r)
    /\ \E result \in OrderByDateDesc(workouts) :
          Finish(r, [Blank EXCEPT !.op = "get_workouts", !.status = 200,
                                  !.rows = [i \in DOMAIN result |-> WorkoutResponse(result[i])]],
                 FALSE)
    /\ UNCHANGED << workouts, seq, assigned, acks >>

ListFails(r) ==
    /\ Connect(r)
    /\ Finish(r, Failure("get_workouts", NoArg, ServerError), TRUE)
    /\ UNCHANGED << workouts, seq, assigned, acks >>

-----------------------------------------------------------------------------
(* GET /analytics/                                                         *)

\* The query runs at SQLite's clock `now` in the server's time zone `zone`.
AnalyticsQuery(r, now, zone) ==
    /\ Connect(r)
    /\ LET selected == WhereInWindow(workouts, WindowStart(now, zone))
       IN  \E results \in GroupByType(selected) :
             Finish(r, [Blank EXCEPT !.op = "get_analytics", !.status = 200,
                                     !.now = <<now>>, !.zone = zone,
                                     !.labels = [i \in DOMAIN results |-> results[i][1]],
                                     !.reps_data = [i \in DOMAIN results |-> results[i][2]],
                                     !.volume_data = [i \in DOMAIN results |-> results[i][3]],
                                     !.counted = { w.id : w \in selected }],
                    FALSE)
    /\ UNCHANGED << workouts, seq, assigned, acks >>

AnalyticsFails(r) ==
    /\ Connect(r)
    /\ Finish(r, Failure("get_analytics", NoArg, ServerError), TRUE)
    /\ UNCHANGED << workouts, seq, assigned, acks >>

-----------------------------------------------------------------------------
(* DELETE /workouts/{workout_id}                                           *)

\* The existence check.  No row: HTTPException(404) is raised inside the
\* with statement, the connection is closed on the way out, and the except
\* clause of the handler catches the exception.
DeleteCheck(r, id) ==
    /\ Connect(r)
    /\ IF SelectById(workouts, id) = {}
       THEN Finish(r, [Failure("delete_workout", [workout |-> <<>>, id |-> id],
                               DeleteExcept(CloseOnExit("open", TRUE)))
                         EXCEPT !.found = "no"], TRUE)
       ELSE Continue(r, "delete_remove", [workout |-> <<>>, id |-> id], 0)
    /\ UNCHANGED << workouts, seq, assigned, acks >>

\* DELETE, commit and the success acknowledgment.
DeleteRemove(r) ==
    /\ At(r, "delete_remove")
    /\ LET id       == arg[r].id
           rowcount == Cardinality(SelectById(workouts, id))
           status   == DeleteStatus(rowcount)
       IN  /\ workouts' = DeleteById(workouts, id)
           /\ acks' = IF status = 200 THEN [acks EXCEPT ![id] = @ + 1] ELSE acks
           /\ Finish(r, [Blank EXCEPT !.op = "delete_workout", !.status = status,
                                      !.id = id, !.found = "yes",
                                      !.rowcount = rowcount], FALSE)
    /\ UNCHANGED << seq, assigned >>

\* The existence check raises: the connection is closed on the way out of
\* the with statement and the except clause runs.
DeleteCheckFails(r) ==
    /\ Connect(r)
    /\ Finish(r, Failure("delete_workout", NoArg,
                         DeleteExcept(CloseOnExit("open", TRUE))), TRUE)
    /\ UNCHANGED << workouts, seq, assigned, acks >>

\* The DELETE or its commit raises: the row stays.
DeleteRemoveFails(r) ==
    /\ At(r, "delete_remove")
    /\ Finish(r, [Failure("delete_workout", arg[r],
                          DeleteExcept(CloseOnExit("open", TRUE)))
                    EXCEPT !.found = "yes"], TRUE)
    /\ UNCHANGED << workouts, seq, assigned, acks >>

\* sqlite3.connect itself raises: no connection is opened, and the name conn
\* is unbound when the except clause calls conn.rollback().
DeleteConnectFails(r) ==
    /\ Connect(r)
    /\ response' = Failure("delete_workout", NoArg, DeleteExcept("unbound"))
    /\ UNCHANGED << workouts, seq, pc, arg, conn, last_insert_rowid,
                    assigned, acks >>

\* The response of the step just taken goes out to the client; it is looked
\* at in the state it was produced in and taken off before the next step.
Respond ==
    /\ response # Blank
    /\ response' = Blank
    /\ UNCHANGED << workouts, seq, pc, arg, conn, last_insert_rowid,
                    assigned, acks >>

Next ==
    \/ Respond
    \/ \E r \in Req :
            \/ \E w \in Workouts : AddInsert(r, w)
            \/ AddSelect(r)
            \/ AddInsertFails(r)
            \/ AddSelectFails(r)
            \/ ListQuery(r)
            \/ ListFails(r)
            \/ \E now \in Instants, zone \in Zones : AnalyticsQuery(r, now, zone)
            \/ AnalyticsFails(r)
            \/ \E id \in WorkoutIds : DeleteCheck(r, id)
            \/ DeleteRemove(r)
            \/ DeleteCheckFails(r)
            \/ DeleteRemoveFails(r)
            \/ DeleteConnectFails(r)

Spec == Init /\ [][Next]_vars

-----------------------------------------------------------------------------
(* Properties                                                              *)
(*                                                                         *)
(* A response is looked at in the state its step produced: no other step   *)
(* comes between, so for a handler that does not write (List, Aggregate)   *)
(* the table of that state is the table its query read.                    *)

Ids(ws) == { w.id : w \in ws }

Ok(op) == response.op = op /\ response.status = 200

\* Day number of the server's current local date T.
LocalDay(now, zone) == (HourStamp(now) + UtcOffset(zone, HourStamp(now))) \div 24

\* Day number of the date a stored row carries.
RowDay(w) == ToOrdinal(ParseDate(w.date))

\* The trailing window: the seven days before the local date T, and T.
TrailingWindow(ws, now, zone) ==
    { w \in ws : /\ LocalDay(now, zone) - 7 <= RowDay(w)
                 /\ RowDay(w) <= LocalDay(now, zone) }

RECURSIVE Total(_, _)
\* The sum of the numbers in the bag of values that f, a function on the set
\* S, takes.
Total(f, S) ==
    IF S = {} THEN 0
    ELSE LET x == CHOOSE y \in S : TRUE
         IN  f[x] + Total(f, S \ {x})

EffectiveWeight(w) == IF Len(w.weight) = 0 THEN 1 ELSE w.weight[1]

\* The three sequences of an Aggregate response describe the rows `rows`:
\* equal lengths, one label per type of `rows`, and under each label the two
\* totals of the rows of that type.
Aggregates(rows) ==
    LET n == Len(response.labels)
    IN  /\ Len(response.reps_data) = n
        /\ Len(response.volume_data) = n
        /\ \A t \in { w.type : w \in rows } :
              Cardinality({ i \in 1..n : response.labels[i] = t }) = 1
        /\ \A i \in 1..n :
              LET g == { w \in rows : w.type = response.labels[i] }
              IN  /\ g # {}
                  /\ response.reps_data[i] =
                        Total([w \in g |-> w.reps * w.sets], g)
                  /\ response.volume_data[i] =
                        Total([w \in g |-> w.reps * w.sets * EffectiveWeight(w)], g)

\* C1: a Delete whose existence check finds no workout with the id ends
\* with the not-found error 404, not with the server error 500.
C1_DeleteOfMissingIdIs404 ==
    (response.op = "delete_workout" /\ response.found = "no")
        => response.status = 404

AggregateOverSelectedRows ==
    Ok("get_analytics") =>
        Aggregates({ w \in workouts : w.id \in response.counted })

\* C5: with T the server's local date, Aggregate counts no workout dated
\* before T - 7 days and counts every workout dated from T - 7 days to T,
\* both included.
C5_WindowIsLastSevenLocalDays ==
    Ok("get_analytics") =>
        LET T == LocalDay(response.now[1], response.zone)
        IN  \A w \in workouts :
              /\ RowDay(w) < T - 7 => w.id \notin response.counted
              /\ (T - 7 <= RowDay(w) /\ RowDay(w) <= T) => w.id \in response.counted

\* C6: a workout dated after the server's local date T is counted by no
\* Aggregate: it adds no label and nothing to a total.
C6_FutureWorkoutsNotCounted ==
    Ok("get_analytics") =>
        LET T == LocalDay(response.now[1], response.zone)
        IN  \A w \in workouts :
              RowDay(w) > T =>
                /\ w.id \notin response.counted
                /\ Aggregates({ x \in workouts : x.id \in response.counted /\ x # w })

C3_IdsUniqueAndNeverReused ==
    [][ /\ \A r \in Req :
              (pc[r] = "idle" /\ pc'[r] = "add_select") =>
                  last_insert_rowid'[r] \notin assigned
        /\ \A a, b \in workouts' : a.id = b.id => a = b
      ]_vars

\* A Create got id 2 where the workout with id 1, deleted with success, is
\* gone from the table.
C3_Witness ==
    /\ acks[1] > 0
    /\ Ids(workouts) = {2}
    /\ \E r \in Req : pc[r] = "add_select" /\ last_insert_rowid[r] = 2

\* C7: a List response holds every row of the table exactly once and
\* nothing else, and the date of each record is on or after the date of the
\* record that follows it.
C7_ListAllByDateDescending ==
    Ok("get_workouts") =>
        LET rows == response.rows
        IN  /\ Len(rows) = Cardinality(workouts)
            /\ \A x \in workouts :
                  Cardinality({ i \in DOMAIN rows : rows[i] = WorkoutResponse(x) }) = 1
            /\ \A i, j \in DOMAIN rows :
                  i < j => ToOrdinal(rows[i].date) >= ToOrdinal(rows[j].date)

\* A List of two workouts puts the one inserted second, with the later
\* date, first.
C7_Witness ==
    /\ Ok("get_workouts")
    /\ Len(response.rows) = 2
    /\ response.rows[1].id > response.rows[2].id
    /\ ToOrdinal(response.rows[1].date) > ToOrdinal(response.rows[2].date)

\* C8: a Delete that answers with success leaves the table without a row of
\* its id and with every other row unchanged, and from then on no row of the
\* table, no record of a List and no row counted by Aggregate has that id.
C8_DeleteRemovesOnlyItsRow ==
    [][ /\ \A r \in Req :
              (pc[r] = "delete_remove" /\ pc'[r] = "idle" /\ response'.status = 200) =>
                  /\ workouts' = { w \in workouts : w.id # arg[r].id }
                  /\ acks'[arg[r].id] > 0
        /\ \A w \in workouts' : acks'[w.id] = 0
        /\ (response'.op = "get_workouts" /\ response'.status = 200) =>
              \A i \in DOMAIN response'.rows : acks'[response'.rows[i].id] = 0
        /\ (response'.op = "get_analytics" /\ response'.status = 200) =>
              \A i \in response'.counted : acks'[i] = 0
      ]_vars

\* A List after a Delete of id 1 answered with success: the workout with
\* id 2 is all it returns.
C8_Witness ==
    /\ Ok("get_workouts")
    /\ acks[1] > 0
    /\ Len(response.rows) = 1
    /\ response.rows[1].id = 2

\* C9: the connection of a handler is closed when the handler has ended,
\* however it ended; with no request in flight no connection is open.
C9_ConnectionsClosed ==
    \A r \in Req : pc[r] = "idle" => conn[r] = "closed"

\* A Delete of a missing id has ended through its except clause, where
\* conn.rollback() raised, and every connection is closed.
C9_Witness ==
    /\ response.op = "delete_workout"
    /\ response.found = "no"
    /\ response.error = "ProgrammingError"
    /\ \A r \in Req : conn[r] = "closed"

\* C10: a Delete that passed its existence check answers with success also
\* when its DELETE removes no row, and a Create whose read-back finds no row
\* answers with the server error 500.
C10_CheckThenActRaces ==
    /\ (response.op = "delete_workout" /\ response.rowcount = 0)
          => response.status = 200
    /\ (response.op = "add_workout" /\ response.found = "no")
          => response.status = 500

\* Some id has two success acknowledgments of Delete, though ids are
\* assigned once, and a Create has just ended with 500 because a Delete
\* removed its row before the read-back.
C10_Witness ==
    /\ \E i \in WorkoutIds : acks[i] >= 2
    /\ response.op = "add_workout"
    /\ response.found = "no"
    /\ response.status = 500

=============================================================================
